---- MODULE Spec2Model ----
(***************************************************************************)
(* The resource polling primitive of the block-storage and compute         *)
(* proxies: Proxy.wait_for_status / Proxy.wait_for_server /                *)
(* Proxy.wait_for_delete forward to resource.wait_for_status and           *)
(* resource.wait_for_delete.  The proxy methods are translated from        *)
(* openstack/block_storage/v3/_proxy.py and openstack/compute/v2/_proxy.py;*)
(* the poll loop itself (openstack/resource.py) is modelled from the       *)
(* written design of the StatusPoller (sections 4.1, 4.2, 6 and 7).        *)
(*                                                                         *)
(* Time is counted in whole seconds since the start time was recorded.     *)
(* A sleep advances it by interval (a whole number of seconds, at least    *)
(* one), a fetch by 0..MaxFetchDelay; the first timeout test is made at    *)
(* elapsed time 0.  One call is followed from its start to its end, with   *)
(* the remote service changing the watched resource at any moment.         *)
(***************************************************************************)
EXTENDS Integers, Sequences, FiniteSets, TLC

\* ---------------------------------------------------------------- bounds
MaxInterval   == 2      \* intervals passed by callers: 1..MaxInterval
MaxTimeout    == 3      \* finite timeouts passed by callers: 0..MaxTimeout
MaxFetchDelay == 1      \* seconds one fetch may take: 0..MaxFetchDelay
MaxFetches    == 4      \* cap on the fetches of a call that has no timeout

\* ------------------------------------------------------- status strings
\* A status is a string, modelled as the sequence of its ASCII codes.
st_available == <<97, 118, 97, 105, 108, 97, 98, 108, 101>>
st_Available == <<65, 118, 97, 105, 108, 97, 98, 108, 101>>
st_AVAILABLE == <<65, 86, 65, 73, 76, 65, 66, 76, 69>>
st_creating  == <<99, 114, 101, 97, 116, 105, 110, 103>>
st_error     == <<101, 114, 114, 111, 114>>
st_ERROR     == <<69, 82, 82, 79, 82>>

\* str.lower() on ASCII: 'A'..'Z' (65..90) map to 'a'..'z' (97..122).
Lower(s) ==
    [i \in DOMAIN s |-> IF s[i] \in 65..90 THEN s[i] + 32 ELSE s[i]]

\* Comparison of two statuses as they are written.
SameStatus_exact(a, b) == a = b

\* Case-insensitive comparison of two statuses.
SameStatus(a, b) == Lower(a) = Lower(b)

\* Case-insensitive membership of a status in the failure statuses.
InFailures(s, failures) == \E f \in failures : Lower(f) = Lower(s)

\* ------------------------------------------------------------ input sets
Statuses == {st_available, st_Available, st_AVAILABLE,
             st_creating, st_error, st_ERROR}

\* The statuses callers wait for.
Targets == {st_available, st_Available, st_AVAILABLE, st_creating}

NoneWait == -1          \* wait=None / timeout=None: no limit

Intervals == 1..MaxInterval
Waits     == {NoneWait} \cup (0..MaxTimeout)
Delays    == 0..MaxFetchDelay

\* The failures argument: None, or a list of statuses.
NoFailures   == [isNone |-> TRUE, v |-> {}]
FailureLists == {{}, {st_error}, {st_error, st_AVAILABLE}}
FailureArgs  == {NoFailures} \cup [isNone : {FALSE}, v : FailureLists]

\* A resource representation held by the client; NoneValue is Python's None.
Resource(has, st) == [kind |-> "resource", has_status |-> has, status |-> st]
NoneValue         == [kind |-> "None", has_status |-> FALSE, status |-> <<>>]
Resources == {Resource(TRUE, s) : s \in Statuses} \cup {Resource(FALSE, <<>>)}

\* The state of the watched resource on the remote service.
Deleted      == [exists |-> FALSE, status |-> <<>>]
RemoteStates == [exists : {TRUE}, status : Statuses] \cup {Deleted}

VARIABLES
    call,       \* the proxy call as the caller made it
    p,          \* the arguments resource.wait_for_* received from the proxy
    pc,         \* "idle", "loop", "fetching", "sleep", "done"
    res,        \* the poller's current representation of the resource
    known,      \* the last representation known to the client
    elapsed,    \* seconds since the start time was recorded
    fetches,    \* calls to fetch_fn so far
    fetched,    \* what the last call to fetch_fn came back with: "" (none
                \* yet), "resource", "NotFound", "Transport", "Authorization"
    sleeps,     \* sleeps so far
    outcome,    \* "none", "success", "Failure", "Timeout", "Misuse", "error"
    err,        \* the propagated fetch error, "" when there is none
    returned,   \* the value the proxy method returned to its caller
    carried,    \* the resource a Failure or Timeout error carries
    cloud,      \* the cloud-layer operation that made the call, if any
    request,    \* the proxy delete method called, if any
    cleanup,    \* the _service_cleanup call in progress, if any
    remote      \* the remote resource

vars == <<call, p, pc, res, known, elapsed, fetches, fetched, sleeps,
          outcome, err, returned, carried, cloud, request, cleanup, remote>>

\* No cloud-layer operation has been called.
NoCloud == [op |-> "", wait |-> FALSE, timeout |-> NoneWait,
            bootable |-> "None", cpc |-> "idle", exc |-> "",
            ret |-> NoneValue, volume |-> NoneValue, attached |-> FALSE,
            invalidated |-> 0, requests |-> <<>>]

\* No proxy delete method has been called.
NoRequest == [op |-> "", ignore_missing |-> TRUE, force |-> FALSE,
              missing |-> FALSE, state |-> "idle", exc |-> "",
              sent |-> <<>>]

\* No _service_cleanup is in progress.
NoCleanup == [svc |-> "", dry_run |-> TRUE, no_dict |-> FALSE,
              phase |-> "idle", listed |-> 0, exc |-> "",
              selected |-> [backup |-> 0, snapshot |-> 0, server |-> 0],
              started  |-> [backup |-> 0, snapshot |-> 0, server |-> 0],
              ended    |-> [backup |-> 0, snapshot |-> 0, server |-> 0],
              gone     |-> [backup |-> 0, snapshot |-> 0, server |-> 0],
              swallowed |-> 0,
              deletes  |-> [backup |-> 0, snapshot |-> 0, volume |-> 0,
                            server |-> 0],
              ports |-> 0]

NoCall == [proxy |-> "", method |-> "", res |-> NoneValue, status |-> <<>>,
           failures |-> NoFailures, interval |-> 0, wait |-> NoneWait]
NoArgs == [fn |-> "", res |-> NoneValue, status |-> <<>>, failures |-> {},
           interval |-> 0, wait |-> NoneWait]

\* ------------------------------------------------------ the proxy methods
\* block_storage Proxy.wait_for_status:
\*   failures = ['error'] if failures is None else failures
\*   return resource.wait_for_status(self, res, status, failures, interval, wait)
\* Variants of the forwarding call with one slip each: the status argument
\* left at the default, the failures default forgotten, the wait argument
\* not forwarded, wait=None taken for 0.
BlockStorage_wait_for_status_status_dropped(r, status, failures, interval, wait) ==
    [fn |-> "wait_for_status", res |-> r, status |-> st_available,
     failures |-> IF failures.isNone THEN {st_error} ELSE failures.v,
     interval |-> interval, wait |-> wait]

BlockStorage_wait_for_status_no_default(r, status, failures, interval, wait) ==
    [fn |-> "wait_for_status", res |-> r, status |-> status,
     failures |-> failures.v,
     interval |-> interval, wait |-> wait]

BlockStorage_wait_for_status_wait_dropped(r, status, failures, interval, wait) ==
    [fn |-> "wait_for_status", res |-> r, status |-> status,
     failures |-> IF failures.isNone THEN {st_error} ELSE failures.v,
     interval |-> interval, wait |-> NoneWait]

BlockStorage_wait_for_status_none_as_zero(r, status, failures, interval, wait) ==
    [fn |-> "wait_for_status", res |-> r, status |-> status,
     failures |-> IF failures.isNone THEN {st_error} ELSE failures.v,
     interval |-> interval, wait |-> IF wait = NoneWait THEN 0 ELSE wait]

\* The interval argument not forwarded: the poller sleeps its default 2.
BlockStorage_wait_for_status_interval_dropped(r, status, failures, interval, wait) ==
    [fn |-> "wait_for_status", res |-> r, status |-> status,
     failures |-> IF failures.isNone THEN {st_error} ELSE failures.v,
     interval |-> 2, wait |-> wait]

\* The default written as `failures or ['error']`: an empty list gets the
\* default as well.
BlockStorage_wait_for_status_empty_as_none(r, status, failures, interval, wait) ==
    [fn |-> "wait_for_status", res |-> r, status |-> status,
     failures |-> IF failures.isNone \/ failures.v = {}
                    THEN {st_error} ELSE failures.v,
     interval |-> interval, wait |-> wait]

BlockStorage_wait_for_status(r, status, failures, interval, wait) ==
    [fn |-> "wait_for_status", res |-> r, status |-> status,
     failures |-> IF failures.isNone THEN {st_error} ELSE failures.v,
     interval |-> interval, wait |-> wait]

\* compute Proxy.wait_for_server:
\*   failures = ['ERROR'] if failures is None else failures
\*   return resource.wait_for_status(self, server, status, failures, interval, wait)
Compute_wait_for_server(r, status, failures, interval, wait) ==
    [fn |-> "wait_for_status", res |-> r, status |-> status,
     failures |-> IF failures.isNone THEN {st_ERROR} ELSE failures.v,
     interval |-> interval, wait |-> wait]

\* Proxy.wait_for_delete (both proxies):
\*   return resource.wait_for_delete(self, res, interval, wait)
\* Variants: the body of wait_for_status pasted in, the wait argument not
\* forwarded.
Proxy_wait_for_delete_as_status(r, interval, wait) ==
    [fn |-> "wait_for_status", res |-> r, status |-> st_available,
     failures |-> {st_error}, interval |-> interval, wait |-> wait]

Proxy_wait_for_delete_wait_dropped(r, interval, wait) ==
    [fn |-> "wait_for_delete", res |-> r, status |-> <<>>, failures |-> {},
     interval |-> interval, wait |-> NoneWait]
Proxy_wait_for_delete(r, interval, wait) ==
    [fn |-> "wait_for_delete", res |-> r, status |-> <<>>, failures |-> {},
     interval |-> interval, wait |-> wait]

\* "return resource.wait_for_status(...)": the proxy hands the poller's
\* result to its caller.
Return_wait_for_status(v) == v

\* The same method with the return keyword forgotten.
Return_wait_for_delete_forgotten(v) == NoneValue

\* "return resource.wait_for_delete(...)".
Return_wait_for_delete(v) == v

\* The value a finished call hands back through its proxy method.
ProxyReturn(fn, v) ==
    IF fn = "wait_for_status" THEN Return_wait_for_status(v)
                              ELSE Return_wait_for_delete(v)

\* ------------------------------------------------------------ the poller
\* Timeout test at the top of the loop: elapsed > timeout, when finite.
TimedOut(args, t) == args.wait # NoneWait /\ t > args.wait

\* An inspection that looks at the failure statuses first.
Inspect_failure_first(args, st) ==
    IF InFailures(st, args.failures) THEN "Failure"
    ELSE IF SameStatus(st, args.status) THEN "success"
    ELSE "none"

\* Inspection of a status by wait_for_status: target first, then failures.
Inspect(args, st) ==
    IF SameStatus(st, args.status) THEN "success"
    ELSE IF InFailures(st, args.failures) THEN "Failure"
    ELSE "none"

\* A poller that repeats the delete request with every poll.
FetchEffect_delete_again(args, rem) ==
    IF args.fn = "wait_for_delete" THEN Deleted ELSE rem

\* What a call of fetch_fn does to the remote resource: it is a read.
FetchEffect(args, rem) == rem

\* What fetch_fn returns for a resource that exists remotely.
Fetched(args, rem) ==
    Resource(args.res.has_status,
             IF args.res.has_status THEN rem.status ELSE <<>>)

\* The poller without the check of the status attribute.
Misuse_unchecked(args) == FALSE

\* wait_for_status on a resource type without a status attribute.
Misuse(args) == args.fn = "wait_for_status" /\ ~args.res.has_status

\* wait_for_delete taking every exception of fetch_fn for not-found.
Classify_any_as_gone(args, e) ==
    IF args.fn = "wait_for_delete" THEN "success" ELSE "error"

\* What the poller makes of an exception e raised by fetch_fn: not-found is
\* the success of wait_for_delete, anything else goes to the caller.
Classify(args, e) ==
    IF e = "NotFound" /\ args.fn = "wait_for_delete" THEN "success"
                                                     ELSE "error"

\* A Timeout that carries the handle the caller passed.
Carried_initial(args, o, v) ==
    IF o = "Failure" THEN v
    ELSE IF o = "Timeout" THEN args.res
    ELSE NoneValue

\* The resource a Failure or Timeout error carries, of the resource v the
\* poller holds when it raises.
Carried(args, o, v) ==
    IF o \in {"Failure", "Timeout"} THEN v ELSE NoneValue

\* A poller that goes on polling after a Failure.
Finish_failure_retried(args, o, e, v) ==
    /\ pc' = IF o = "Failure" THEN "sleep" ELSE "done"
    /\ outcome' = o
    /\ err' = e
    /\ returned' = IF o = "success" THEN ProxyReturn(args.fn, v) ELSE NoneValue
    /\ carried' = Carried(args, o, v)

\* The call ends with outcome o: it returns v on success, and raises an
\* error that carries v on Failure and Timeout.
Finish(args, o, e, v) ==
    /\ pc' = "done"
    /\ outcome' = o
    /\ err' = e
    /\ returned' = IF o = "success" THEN ProxyReturn(args.fn, v) ELSE NoneValue
    /\ carried' = Carried(args, o, v)

\* Entry of resource.wait_for_status / resource.wait_for_delete, up to the
\* top of the loop: misuse check, fast path, start time.
Enter(args) ==
    /\ p' = args
    /\ res' = args.res
    /\ known' = args.res
    /\ elapsed' = 0
    /\ fetches' = 0
    /\ fetched' = ""
    /\ sleeps' = 0
    /\ IF Misuse(args)
         THEN Finish(args, "Misuse", "", NoneValue)
       ELSE IF args.fn = "wait_for_status"
                 /\ SameStatus(args.res.status, args.status)
         THEN Finish(args, "success", "", args.res)
       ELSE /\ pc' = "loop"
            /\ UNCHANGED <<outcome, err, returned, carried>>
    /\ UNCHANGED remote

wait_for_status ==
    /\ pc = "idle"
    /\ \E r \in Resources, status \in Targets, failures \in FailureArgs,
          interval \in Intervals, wait \in Waits :
          /\ call' = [proxy |-> "block_storage", method |-> "wait_for_status",
                      res |-> r, status |-> status, failures |-> failures,
                      interval |-> interval, wait |-> wait]
          /\ Enter(BlockStorage_wait_for_status(r, status, failures,
                                                interval, wait))
    /\ UNCHANGED <<cloud, request, cleanup>>

wait_for_server ==
    /\ pc = "idle"
    /\ \E r \in Resources, status \in Targets, failures \in FailureArgs,
          interval \in Intervals, wait \in Waits :
          /\ call' = [proxy |-> "compute", method |-> "wait_for_server",
                      res |-> r, status |-> status, failures |-> failures,
                      interval |-> interval, wait |-> wait]
          /\ Enter(Compute_wait_for_server(r, status, failures,
                                           interval, wait))
    /\ UNCHANGED <<cloud, request, cleanup>>

wait_for_delete ==
    /\ pc = "idle"
    /\ \E proxy \in {"block_storage", "compute"}, r \in Resources,
          interval \in Intervals, wait \in Waits :
          /\ call' = [proxy |-> proxy, method |-> "wait_for_delete",
                      res |-> r, status |-> <<>>, failures |-> NoFailures,
                      interval |-> interval, wait |-> wait]
          /\ Enter(Proxy_wait_for_delete(r, interval, wait))
    /\ UNCHANGED <<cloud, request, cleanup>>

\* Loop step a: the budget is exhausted, raise Timeout.
LoopTimeout ==
    /\ pc = "loop"
    /\ TimedOut(p, elapsed)
    /\ Finish(p, "Timeout", "", res)
    /\ UNCHANGED <<call, p, res, known, elapsed, fetches, fetched, sleeps,
                   cloud, request, cleanup, remote>>

\* Loop step b: the budget is not exhausted, call fetch_fn.
LoopFetch ==
    /\ pc = "loop"
    /\ ~TimedOut(p, elapsed)
    /\ p.wait = NoneWait => fetches < MaxFetches
    /\ pc' = "fetching"
    /\ fetches' = fetches + 1
    /\ UNCHANGED <<call, p, res, known, elapsed, fetched, sleeps,
                   outcome, err, returned, carried, cloud, request, cleanup, remote>>

\* fetch_fn returns the current representation; steps c and d inspect it.
FetchResource ==
    /\ pc = "fetching"
    /\ remote.exists
    /\ \E d \in Delays : elapsed' = elapsed + d
    /\ fetched' = "resource"
    /\ res' = Fetched(p, remote)
    /\ known' = res'
    /\ LET o == IF p.fn = "wait_for_status"
                  THEN Inspect(p, res'.status) ELSE "none"
       IN  IF o = "none"
             THEN /\ pc' = "sleep"
                  /\ UNCHANGED <<outcome, err, returned, carried>>
             ELSE Finish(p, o, "", res')
    /\ remote' = FetchEffect(p, remote)
    /\ UNCHANGED <<call, p, fetches, sleeps, cloud, request, cleanup>>

\* fetch_fn raises e: the call ends with what Classify makes of it.
Raised(e) ==
    /\ \E d \in Delays : elapsed' = elapsed + d
    /\ fetched' = e
    /\ IF Classify(p, e) = "success"
         THEN Finish(p, "success", "", res)
         ELSE Finish(p, Classify(p, e), e, NoneValue)
    /\ UNCHANGED <<call, p, res, known, fetches, sleeps, cloud, request,
                   cleanup, remote>>

\* fetch_fn signals not-found: the resource is gone.
FetchNotFound ==
    /\ pc = "fetching"
    /\ ~remote.exists
    /\ Raised("NotFound")

\* fetch_fn fails with a transport or authorization error.
FetchError ==
    /\ pc = "fetching"
    /\ \E e \in {"Transport", "Authorization"} : Raised(e)

\* Loop step e: sleep interval seconds, then repeat.
Sleep ==
    /\ pc = "sleep"
    /\ elapsed' = elapsed + p.interval
    /\ sleeps' = sleeps + 1
    /\ pc' = "loop"
    /\ UNCHANGED <<call, p, res, known, fetches, fetched, outcome, err,
                   returned, carried, cloud, request, cleanup, remote>>

\* The remote service changes the status of the resource, or deletes it.
\* Only the steps it takes while a call is in progress are observable; the
\* remote state a call starts from is any state (Init).
RemoteStep ==
    /\ pc \in {"loop", "fetching", "sleep"}
    /\ remote.exists
    /\ remote' \in RemoteStates \ {remote}
    /\ UNCHANGED <<call, p, pc, res, known, elapsed, fetches, fetched,
                   sleeps, outcome, err, returned, carried, cloud, request,
                   cleanup>>

Init ==
    /\ call = NoCall
    /\ p = NoArgs
    /\ pc = "idle"
    /\ res = NoneValue
    /\ known = NoneValue
    /\ elapsed = 0
    /\ fetches = 0
    /\ fetched = ""
    /\ sleeps = 0
    /\ outcome = "none"
    /\ err = ""
    /\ returned = NoneValue
    /\ carried = NoneValue
    /\ cloud = NoCloud
    /\ request = NoRequest
    /\ cleanup = NoCleanup
    /\ remote \in RemoteStates

PollerNext ==
    \/ LoopTimeout
    \/ LoopFetch
    \/ FetchResource
    \/ FetchNotFound
    \/ FetchError
    \/ Sleep

Next ==
    \/ wait_for_status
    \/ wait_for_server
    \/ wait_for_delete
    \/ PollerNext
    \/ RemoteStep

Spec == Init /\ [][Next]_vars

\* The calling thread runs: a call that can take a step eventually takes it.
FairSpec == Spec /\ WF_vars(PollerNext)

\* ===================================================== stated properties
\* Two strings are equal up to letter case: same length, and at each
\* position the same character or the two cases of one letter.
IsUpper(c) == c \in 65..90
IsLower(c) == c \in 97..122
EqIgnoreCase(a, b) ==
    /\ Len(a) = Len(b)
    /\ \A i \in 1..Len(a) :
          \/ a[i] = b[i]
          \/ IsUpper(a[i]) /\ b[i] = a[i] + 32
          \/ IsLower(a[i]) /\ b[i] = a[i] - 32

\* The call is a status wait (wait_for_status or wait_for_server).
StatusCall == call.method \in {"wait_for_status", "wait_for_server"}
DeleteCall == call.method = "wait_for_delete"

\* The failure statuses of the call in progress, as documented: the list
\* the caller passed, or the proxy's default when the caller passed None.
FailureStatuses ==
    IF ~call.failures.isNone THEN call.failures.v
    ELSE IF call.proxy = "block_storage" THEN {st_error} ELSE {st_ERROR}

IsTarget(st)  == EqIgnoreCase(st, call.status)
IsFailure(st) == \E f \in FailureStatuses : EqIgnoreCase(st, f)

\* A fetch of the call in progress returns in this step with a resource.
FetchReturns ==
    /\ pc = "fetching"
    /\ pc' # "fetching"
    /\ fetched' = "resource"

\* C1: a status wait on a resource whose status already equals the target,
\* in any letter case, returns that resource with no fetch and no sleep,
\* whatever failures, interval and wait are.
C1_FastPath ==
    (StatusCall /\ call.res.has_status /\ IsTarget(call.res.status))
        => /\ pc = "done"
           /\ outcome = "success"
           /\ returned = call.res
           /\ fetches = 0
           /\ sleeps = 0

\* The fast path was taken on a status written in another case than the
\* target, with a failure list that contains that very status.
C1_Witness ==
    /\ call.method = "wait_for_status"
    /\ call.res.status = st_AVAILABLE
    /\ call.status = st_available
    /\ call.failures = [isNone |-> FALSE, v |-> {st_error, st_AVAILABLE}]
    /\ call.wait = 0
    /\ outcome = "success"
    /\ fetches = 0

\* C2: a fetch that returns a failure status (not the target) makes the
\* call raise Failure in that same step, with no sleep and no fetch after
\* it; a Failure comes after one sleep less than fetches.  For target
\* 'available', failures ['error'] and fetches 'creating', 'error' the call
\* raises Failure after exactly 2 fetches and 1 sleep.
C2_FailureStep ==
    (StatusCall /\ FetchReturns
       /\ ~IsTarget(remote.status) /\ IsFailure(remote.status))
        => /\ outcome' = "Failure"
           /\ pc' = "done"
           /\ fetches' = fetches
           /\ sleeps' = sleeps

C2_Example ==
    (/\ StatusCall /\ FetchReturns
     /\ call.status = st_available
     /\ call.failures = [isNone |-> FALSE, v |-> {st_error}]
     /\ fetches = 2
     /\ res.status = st_creating
     /\ remote.status = st_error)
        => outcome' = "Failure" /\ fetches' = 2 /\ sleeps' = 1

C2_FailureShortCircuit ==
    /\ [][C2_FailureStep /\ C2_Example]_vars
    /\ [](outcome = "Failure" =>
            /\ pc = "done"
            /\ fetches >= 1
            /\ sleeps = fetches - 1
            /\ IsFailure(res.status))
    /\ [][outcome = "Failure" => UNCHANGED <<pc, fetches, sleeps, outcome>>]_vars

\* Failure raised on the second fetch, after 'creating' then 'error'.
C2_Witness ==
    /\ call.status = st_available
    /\ call.failures = [isNone |-> FALSE, v |-> {st_error}]
    /\ call.res.status = st_creating
    /\ outcome = "Failure"
    /\ res.status = st_error
    /\ fetches = 2
    /\ sleeps = 1

\* C3: a status wait with a finite timeout ends: while every fetch returns
\* a status that is neither target nor failure, the k-th fetch starts no
\* later than the timeout and at least (k-1) intervals after the start, the
\* call ends, and it ends with Timeout; with interval 1 and timeout 3 it
\* makes at most 4 fetches.
FiniteWait == call.wait # NoneWait

C3_Bound ==
    (StatusCall /\ FiniteWait /\ fetches >= 1)
        => (fetches - 1) * call.interval <= call.wait

C3_Example ==
    (StatusCall /\ call.interval = 1 /\ call.wait = 3) => fetches <= 4

C3_EndsInTimeout ==
    (/\ StatusCall /\ FiniteWait /\ pc = "done" /\ fetches >= 1
     /\ outcome # "error"
     /\ ~IsTarget(res.status) /\ ~IsFailure(res.status))
        => outcome = "Timeout" /\ elapsed > call.wait

C3_TimeoutTerminates ==
    /\ [](C3_Bound /\ C3_Example /\ C3_EndsInTimeout)
    /\ (StatusCall /\ FiniteWait) ~> (pc = "done")

\* Timeout raised after four fetches of 'creating', one second apart.
C3_Witness ==
    /\ StatusCall
    /\ call.interval = 1
    /\ call.wait = 3
    /\ call.status = st_available
    /\ res.status = st_creating
    /\ fetches = 4
    /\ sleeps = 4
    /\ outcome = "Timeout"

\* C4: wait_for_delete returns normally exactly when a fetch signals
\* not-found: it returns in the step of that fetch, with no further sleep
\* or fetch, the last representation known before it; a fetch that finds
\* the resource never ends the call with success; with a finite timeout
\* the deciding fetch started within the timeout.  After exists, exists,
\* not-found it returns on the 3rd fetch.
C4_NotFoundStep ==
    (DeleteCall /\ pc = "fetching" /\ pc' # "fetching"
       /\ fetched' = "NotFound")
        => /\ outcome' = "success"
           /\ pc' = "done"
           /\ returned' = known
           /\ fetches' = fetches
           /\ sleeps' = sleeps
           /\ (fetches = 3 => sleeps' = 2)

C4_OnlyNotFound ==
    (DeleteCall /\ outcome' = "success")
        => (outcome = "success" \/ fetched' = "NotFound")

C4_Returned ==
    (DeleteCall /\ outcome = "success")
        => /\ pc = "done"
           /\ fetched = "NotFound"
           /\ ~remote.exists
           /\ returned = known
           /\ returned.kind = "resource"
           /\ sleeps = fetches - 1
           /\ (FiniteWait => (fetches - 1) * call.interval <= call.wait)

C4_DeleteSuccess ==
    /\ [][C4_NotFoundStep /\ C4_OnlyNotFound]_vars
    /\ [](C4_Returned)

\* Returned on the third fetch with the representation the second fetch
\* brought, which differs from the one the caller passed.
C4_Witness ==
    /\ DeleteCall
    /\ outcome = "success"
    /\ fetches = 3
    /\ sleeps = 2
    /\ call.res.status = st_available
    /\ returned.status = st_error

\* C5: a status wait on a resource without a status attribute raises Misuse
\* before any fetch and any sleep; Misuse is never raised later in the
\* call, and never by wait_for_delete.
C5_Misuse ==
    /\ (StatusCall /\ ~call.res.has_status)
          => /\ pc = "done"
             /\ outcome = "Misuse"
             /\ fetches = 0
             /\ sleeps = 0
             /\ returned = NoneValue
    /\ outcome = "Misuse"
          => StatusCall /\ ~call.res.has_status /\ fetches = 0

\* Misuse raised by each of the two status waits' resource types.
C5_Witness ==
    /\ call.method = "wait_for_server"
    /\ ~call.res.has_status
    /\ call.wait = NoneWait
    /\ outcome = "Misuse"
    /\ fetches = 0

\* C6: every decision of a status wait depends on the statuses only up to
\* letter case: the fast path is taken exactly when the initial status
\* equals the target up to case; a fetched status ends the call with
\* success exactly when it equals the target up to case, with Failure
\* exactly when it does not and equals a failure status up to case, and
\* otherwise the call sleeps.
C6_Entry ==
    (StatusCall /\ call.res.has_status)
        => (IsTarget(call.res.status) <=> (outcome = "success" /\ fetches = 0))

C6_Inspection ==
    (StatusCall /\ FetchReturns)
        => /\ IsTarget(remote.status) <=> outcome' = "success"
           /\ (~IsTarget(remote.status) /\ IsFailure(remote.status))
                 <=> outcome' = "Failure"
           /\ (~IsTarget(remote.status) /\ ~IsFailure(remote.status))
                 <=> pc' = "sleep"

C6_CaseInsensitive ==
    /\ [](C6_Entry)
    /\ [][C6_Inspection]_vars

\* Failure on 'ERROR' against the default ['error'], for a target written
\* 'Available'.
C6_Witness ==
    /\ call.proxy = "block_storage"
    /\ StatusCall
    /\ call.failures.isNone
    /\ call.status = st_Available
    /\ res.status = st_ERROR
    /\ outcome = "Failure"

\* C7: a call with no timeout never raises Timeout: at the top of the loop
\* it always fetches, and it leaves the loop only on the target status, on
\* a failure status, on not-found (wait_for_delete) or on an error of the
\* fetch.
NoTimeout == call.method # "" /\ call.wait = NoneWait

C7_NeverTimeout == NoTimeout => outcome # "Timeout"

C7_LoopStep ==
    (NoTimeout /\ pc = "loop" /\ pc' # "loop") => pc' = "fetching"

C7_LoopExit ==
    (NoTimeout /\ pc # "done" /\ pc' = "done" /\ fetches >= 1)
        => \/ StatusCall /\ outcome' = "success" /\ IsTarget(res'.status)
           \/ StatusCall /\ outcome' = "Failure" /\ IsFailure(res'.status)
           \/ DeleteCall /\ outcome' = "success" /\ fetched' = "NotFound"
           \/ outcome' = "error" /\ err' = fetched'
                /\ fetched' \in {"NotFound", "Transport", "Authorization"}

C7_Unbounded ==
    /\ [](C7_NeverTimeout)
    /\ [][C7_LoopStep /\ C7_LoopExit]_vars

\* Still polling after MaxFetches fetches and as many sleeps.
C7_Witness ==
    /\ NoTimeout
    /\ pc = "loop"
    /\ fetches = MaxFetches
    /\ sleeps = MaxFetches
    /\ outcome = "none"

\* C8: a status wait with timeout 0 on a resource not yet in the target
\* status makes one fetch and no second one: it returns the fetched
\* resource if that fetch shows the target, and fails otherwise.
ZeroTimeout ==
    /\ StatusCall
    /\ call.wait = 0
    /\ call.res.has_status
    /\ ~IsTarget(call.res.status)

C8_ZeroTimeout ==
    ZeroTimeout
        => /\ fetches <= 1
           /\ pc \in {"sleep", "done"} => fetches = 1
           /\ pc = "done" =>
                 \/ /\ outcome = "success"
                    /\ fetched = "resource"
                    /\ IsTarget(res.status)
                    /\ returned = res
                 \/ /\ outcome = "Failure"
                    /\ fetched = "resource"
                    /\ ~IsTarget(res.status) /\ IsFailure(res.status)
                 \/ /\ outcome = "Timeout"
                    /\ fetched = "resource"
                    /\ ~IsTarget(res.status) /\ ~IsFailure(res.status)
                 \/ /\ outcome = "error"
                    /\ fetched # "resource"

\* Timeout after the single fetch of a zero-timeout wait.
C8_Witness ==
    /\ ZeroTimeout
    /\ outcome = "Timeout"
    /\ fetches = 1
    /\ sleeps = 1

\* C9: a transport or authorization error of a fetch ends the call in that
\* step with that same error: no fetch and no sleep follows, nothing is
\* returned, and the outcome is never Timeout, Failure or success.
FetchFailed == fetched \in {"Transport", "Authorization"}

C9_Propagated ==
    FetchFailed
        => /\ pc = "done"
           /\ outcome = "error"
           /\ err = fetched
           /\ returned = NoneValue
           /\ sleeps = fetches - 1

C9_FetchErrors ==
    /\ [](C9_Propagated)
    /\ [][FetchFailed => UNCHANGED <<pc, fetches, sleeps, outcome, err>>]_vars

\* An authorization error on the third fetch of a wait_for_delete.
C9_Witness ==
    /\ DeleteCall
    /\ fetched = "Authorization"
    /\ fetches = 3
    /\ outcome = "error"

\* C10: a call that has ended is in exactly one of success, Failure,
\* Timeout, Misuse and error, and after Failure or Timeout (as after any
\* end) it makes no fetch and no sleep and its outcome stays.
Outcomes == {"success", "Failure", "Timeout", "Misuse", "error"}

C10_OneOutcome ==
    /\ pc = "done" <=> outcome \in Outcomes
    /\ pc # "done" <=> outcome = "none"
    /\ outcome = "error" <=> err # ""
    /\ returned # NoneValue => outcome = "success"

C10_Final ==
    outcome \in Outcomes
        => UNCHANGED <<pc, fetches, sleeps, outcome, err, returned>>

C10_TerminalFinal ==
    /\ [](C10_OneOutcome)
    /\ [][C10_Final]_vars

\* A call that ended with Failure after two sleeps while the remote
\* resource lives on.
C10_Witness ==
    /\ outcome = "Failure"
    /\ pc = "done"
    /\ fetches = 3
    /\ sleeps = 2
    /\ remote.exists

\* C11: a fetch that finds the resource never ends wait_for_delete,
\* whatever status the resource reports: the call goes to sleep, after the
\* sleep it is at the top of the loop again, and there it fetches again or,
\* with the timeout exceeded, raises Timeout.
C11_ExistsStep ==
    (DeleteCall /\ FetchReturns)
        => /\ pc' = "sleep"
           /\ outcome' = "none"
           /\ returned' = returned
           /\ fetches' = fetches
           /\ sleeps' = sleeps

C11_SleepStep ==
    (DeleteCall /\ pc = "sleep" /\ pc' # "sleep")
        => pc' = "loop" /\ sleeps' = sleeps + 1 /\ fetches' = fetches

C11_PollAgain ==
    (DeleteCall /\ pc = "loop" /\ pc' # "loop")
        => \/ pc' = "fetching" /\ fetches' = fetches + 1
           \/ /\ outcome' = "Timeout"
              /\ FiniteWait
              /\ elapsed > call.wait

C11_Ended ==
    (DeleteCall /\ pc = "done" /\ fetched = "resource")
        => outcome = "Timeout"

C11_DeleteIgnoresStatus ==
    /\ [][C11_ExistsStep /\ C11_SleepStep /\ C11_PollAgain]_vars
    /\ [](C11_Ended)

\* Fetching a third time after the resource was seen in status 'error'.
C11_Witness ==
    /\ DeleteCall
    /\ pc = "fetching"
    /\ fetches = 3
    /\ sleeps = 2
    /\ fetched = "resource"
    /\ res.status = st_error
    /\ remote = [exists |-> TRUE, status |-> st_error]

\* C12: wait_for_delete with a finite timeout ends; while every fetch finds
\* the resource, the k-th fetch starts within the timeout and at least
\* (k-1) intervals after the start, and the call ends with Timeout and
\* returns nothing; with timeout 2 and interval 1 it makes at most 3
\* fetches.
C12_Bound ==
    (DeleteCall /\ FiniteWait /\ fetches >= 1)
        => (fetches - 1) * call.interval <= call.wait

C12_Example ==
    (DeleteCall /\ call.interval = 1 /\ call.wait = 2) => fetches <= 3

C12_EndsInTimeout ==
    (DeleteCall /\ FiniteWait /\ pc = "done" /\ fetched \in {"", "resource"})
        => /\ outcome = "Timeout"
           /\ elapsed > call.wait
           /\ returned = NoneValue

C12_DeleteTimeout ==
    /\ [](C12_Bound /\ C12_Example /\ C12_EndsInTimeout)
    /\ (DeleteCall /\ FiniteWait) ~> (pc = "done")

\* Timeout after three fetches that found the resource, one second apart.
C12_Witness ==
    /\ DeleteCall
    /\ call.interval = 1
    /\ call.wait = 2
    /\ fetched = "resource"
    /\ fetches = 3
    /\ sleeps = 3
    /\ outcome = "Timeout"

\* C13: the Timeout error of a status wait carries the resource, with its
\* status, that the most recent fetch returned (the caller's handle when no
\* fetch was made); the Failure error carries the resource of the fetch
\* that showed the failure status, with that status.
C13_Known ==
    (StatusCall /\ FetchReturns) => known' = Resource(TRUE, remote.status)

C13_FailureStep ==
    (StatusCall /\ FetchReturns /\ outcome' = "Failure")
        => /\ carried' = Resource(TRUE, remote.status)
           /\ IsFailure(carried'.status)

C13_Payload ==
    /\ (StatusCall /\ outcome = "Timeout")
          => /\ carried = known
             /\ carried.kind = "resource"
             /\ (fetches = 0 => carried = call.res)
    /\ (StatusCall /\ outcome = "Failure")
          => /\ carried = known
             /\ IsFailure(carried.status)
    /\ outcome \in {"success", "Misuse", "error", "none"}
          => carried = NoneValue

CallUnchanged ==
    UNCHANGED <<call, p, pc, res, known, elapsed, fetches, fetched, sleeps,
                outcome, err, returned, carried>>

C14_ReadOnly == [][remote' # remote => CallUnchanged]_vars

\* A wait_for_delete that timed out after two fetches, the resource still
\* being there in the status it had before the call.
C14_Witness ==
    /\ DeleteCall
    /\ outcome = "Timeout"
    /\ fetches = 2
    /\ remote.exists
    /\ remote.status = call.res.status

\* C15: fetches and sleeps alternate: a fetch starts only at the top of the
\* loop, with none outstanding; a sleep lasts interval seconds and follows
\* a fetch that did not end the call; so a call that is fetching, sleeping
\* or ended by a fetch has slept once less than it fetched, and a call at
\* the top of the loop or ended by Timeout as often as it fetched.
C15_FetchStep ==
    fetches' # fetches
        => /\ fetches' = fetches + 1
           /\ pc = "loop"
           /\ pc' = "fetching"
           /\ sleeps' = sleeps
           /\ elapsed' = elapsed

C15_SleepStep ==
    sleeps' # sleeps
        => /\ sleeps' = sleeps + 1
           /\ pc = "sleep"
           /\ pc' = "loop"
           /\ fetches' = fetches
           /\ elapsed' = elapsed + call.interval

C15_Counts ==
    /\ pc = "idle" => fetches = 0 /\ sleeps = 0
    /\ pc \in {"fetching", "sleep"} => fetches >= 1 /\ sleeps = fetches - 1
    /\ pc = "loop" => sleeps = fetches
    /\ pc = "done" =>
          IF outcome = "Timeout" THEN sleeps = fetches
          ELSE IF fetches = 0 THEN sleeps = 0
          ELSE sleeps = fetches - 1

C15_Sequential ==
    /\ [][C15_FetchStep /\ C15_SleepStep]_vars
    /\ [](C15_Counts)

\* The third fetch outstanding after two sleeps of one second each and
\* fetches that took no measurable time.
C15_Witness ==
    /\ pc = "fetching"
    /\ call.proxy = "block_storage"
    /\ StatusCall
    /\ call.interval = 1
    /\ fetches = 3
    /\ sleeps = 2
    /\ elapsed = 2


\* ---------------------------------------------------------------------
\* Keyword calls: the proxy methods' default arguments
\* ---------------------------------------------------------------------

\* An argument the caller did not pass.
Unset == -2
UnsetStatus == <<>>

st_ACTIVE == <<65, 67, 84, 73, 86, 69>>

\* interval=2 in the signatures of the proxy methods.
DefaultInterval == 2

\* wait=120 in the signatures of the proxy methods (and the variant whose
\* default is None, as in the cloud layer's timeout=None).
DefaultWait_unbounded == NoneWait

DefaultWait == 120

Default(v, unset, d) == IF v = unset THEN d ELSE v

\* Proxy.wait_for_status(res, status='available', failures=None,
\*                       interval=2, wait=120) of block_storage.v3
BlockStorage_wait_for_status_kw(r, status, failures, interval, wait) ==
    BlockStorage_wait_for_status(r,
        Default(status, UnsetStatus, st_available),
        failures,
        Default(interval, Unset, DefaultInterval),
        Default(wait, Unset, DefaultWait))

\* Proxy.wait_for_server(server, status='ACTIVE', failures=None,
\*                       interval=2, wait=120) of compute.v2
Compute_wait_for_server_kw(r, status, failures, interval, wait) ==
    Compute_wait_for_server(r,
        Default(status, UnsetStatus, st_ACTIVE),
        failures,
        Default(interval, Unset, DefaultInterval),
        Default(wait, Unset, DefaultWait))

\* Proxy.wait_for_delete(res, interval=2, wait=120) of both proxies
Proxy_wait_for_delete_kw(r, interval, wait) ==
    Proxy_wait_for_delete(r,
        Default(interval, Unset, DefaultInterval),
        Default(wait, Unset, DefaultWait))

\* What a keyword call passes: a resource still being created or one
\* already available, no interval, and no wait, wait=None or a number.
KwResources == {Resource(TRUE, st_creating), Resource(TRUE, st_available)}
KwIntervals == {Unset}
KwWaits == {Unset, NoneWait, MaxTimeout}

KwCall(proxy, method, r, interval, wait) ==
    [proxy |-> proxy, method |-> method, res |-> r,
     status |-> UnsetStatus, failures |-> NoFailures,
     interval |-> interval, wait |-> wait]

wait_for_status_kw ==
    /\ pc = "idle"
    /\ \E r \in KwResources, interval \in KwIntervals, wait \in KwWaits :
          /\ call' = KwCall("block_storage", "wait_for_status", r,
                            interval, wait)
          /\ Enter(BlockStorage_wait_for_status_kw(r, UnsetStatus, NoFailures,
                                                   interval, wait))
    /\ UNCHANGED <<cloud, request, cleanup>>

wait_for_server_kw ==
    /\ pc = "idle"
    /\ \E r \in KwResources, interval \in KwIntervals, wait \in KwWaits :
          /\ call' = KwCall("compute", "wait_for_server", r, interval, wait)
          /\ Enter(Compute_wait_for_server_kw(r, UnsetStatus, NoFailures,
                                              interval, wait))
    /\ UNCHANGED <<cloud, request, cleanup>>

wait_for_delete_kw ==
    /\ pc = "idle"
    /\ \E proxy \in {"block_storage", "compute"}, r \in KwResources,
          interval \in KwIntervals, wait \in KwWaits :
          /\ call' = KwCall(proxy, "wait_for_delete", r, interval, wait)
          /\ Enter(Proxy_wait_for_delete_kw(r, interval, wait))
    /\ UNCHANGED <<cloud, request, cleanup>>

KwNext ==
    \/ wait_for_status_kw
    \/ wait_for_server_kw
    \/ wait_for_delete_kw
    \/ PollerNext
    \/ RemoteStep

KwSpec == Init /\ [][KwNext]_vars



\* ---------------------------------------------------------------------
\* C17: a call to Proxy.wait_for_status, Proxy.wait_for_server or either
\* Proxy.wait_for_delete that does not pass `wait` polls every 2 seconds
\* with a limit of 120 seconds, and ends with the Timeout error once the
\* 120 seconds are exceeded without the awaited condition; the wait is
\* unbounded only when the caller passes wait=None.
\* ---------------------------------------------------------------------
KwCalled == call.method # ""

C17_Limit ==
    KwCalled /\ call.wait = Unset => p.wait = 120 /\ p.interval = 2

C17_UnboundedOnlyOnNone ==
    KwCalled => /\ (p.wait = NoneWait <=> call.wait = NoneWait)
                /\ (call.wait = NoneWait => outcome # "Timeout")

C17_EveryTwoSeconds ==
    call.wait = Unset /\ pc = "sleep" /\ pc' = "loop"
        => elapsed' = elapsed + 2 /\ sleeps' = sleeps + 1

C17_RaisesPast120 ==
    call.wait = Unset /\ pc = "loop" /\ pc' # "loop"
        => (outcome' = "Timeout" <=> elapsed > 120)

C17_ProxyDefaults ==
    /\ [](C17_Limit /\ C17_UnboundedOnlyOnNone)
    /\ [][C17_EveryTwoSeconds /\ C17_RaisesPast120]_vars

C17_Witness ==
    /\ call.method = "wait_for_server"
    /\ call.wait = Unset
    /\ outcome = "Timeout"
    /\ fetches = 61
    /\ elapsed = 122


\* ---------------------------------------------------------------------
\* The cloud layer: BlockStorageCloudMixin (cloud/_block_storage.py)
\* ---------------------------------------------------------------------

st_in_use == <<105, 110, 45, 117, 115, 101>>

ValTrue    == [kind |-> "True", has_status |-> FALSE, status |-> <<>>]
ValFalse   == [kind |-> "False", has_status |-> FALSE, status |-> <<>>]
Attachment == [kind |-> "attachment", has_status |-> FALSE, status |-> <<>>]

\* The arguments of the cloud operations: timeout=None or a number of
\* seconds, image absent, found or not found, bootable None, True or False.
CloudTimeouts  == Waits
DetachTimeouts == {NoneWait, MaxTimeout}
ImageArgs      == {"none", "found", "missing"}
BootableArgs   == {"None", "True", "False"}

\* What find_volume, get_volume, get_volume_backup and get_volume_snapshot
\* return, and the resource a create request returns: the resource as the
\* remote service has it, None when it has none.
Lookup(rem) == IF rem.exists THEN Resource(TRUE, rem.status) ELSE NoneValue

CloudCall(op, wait, timeout, bootable) ==
    [NoCloud EXCEPT !.op = op, !.wait = wait, !.timeout = timeout,
                    !.bootable = bootable]

\* The poller is not called.
NoPoll ==
    UNCHANGED <<call, p, pc, res, known, elapsed, fetches, fetched, sleeps,
                outcome, err, returned, carried, remote>>

\* The cloud operation raises e, or returns v, without a poller call.
CloudRaise(c, e) ==
    /\ cloud' = [c EXCEPT !.cpc = "raised", !.exc = e]
    /\ NoPoll
    /\ UNCHANGED <<request, cleanup>>

CloudReturn(c, v) ==
    /\ cloud' = [c EXCEPT !.cpc = "returned", !.ret = v]
    /\ NoPoll
    /\ UNCHANGED <<request, cleanup>>

\* The cloud operation calls the block_storage proxy's poller.
CloudWait(c, method, r, status, wait, args) ==
    /\ cloud' = [c EXCEPT !.cpc = "waiting"]
    /\ call' = [proxy |-> "block_storage", method |-> method, res |-> r,
                status |-> status, failures |-> NoFailures,
                interval |-> Unset, wait |-> wait]
    /\ Enter(args)
    /\ UNCHANGED <<request, cleanup>>

\* create_volume: if volume['status'] == 'error'
CreateFailed_never(volume) == FALSE

CreateFailed(volume) == volume.status = st_error

\* create_volume: self.block_storage.wait_for_status(volume, wait=timeout)
create_volume_wait_for_status_timeout_dropped(volume, timeout) ==
    BlockStorage_wait_for_status_kw(volume, UnsetStatus, NoFailures,
                                    Unset, Unset)

create_volume_wait_for_status(volume, timeout) ==
    BlockStorage_wait_for_status_kw(volume, UnsetStatus, NoFailures,
                                    Unset, timeout)

\* delete_volume: self.block_storage.wait_for_delete(volume, wait=timeout)
delete_volume_wait_for_delete(volume, timeout) ==
    Proxy_wait_for_delete_kw(volume, Unset, timeout)

\* detach_volume: self.block_storage.wait_for_status(vol)
detach_volume_wait_for_status(vol, timeout) ==
    BlockStorage_wait_for_status_kw(vol, UnsetStatus, NoFailures,
                                    Unset, Unset)

\* attach_volume:
\*   self.block_storage.wait_for_status(volume, 'in-use', wait=timeout)
\* (and the variant that waits for the default status).
attach_volume_wait_for_status_status_dropped(volume, timeout) ==
    BlockStorage_wait_for_status_kw(volume, UnsetStatus, NoFailures,
                                    Unset, timeout)

attach_volume_wait_for_status(volume, timeout) ==
    BlockStorage_wait_for_status_kw(volume, st_in_use, NoFailures,
                                    Unset, timeout)

\* create_volume_snapshot:
\*   snapshot = self.block_storage.wait_for_status(snapshot, wait=timeout)
create_volume_snapshot_wait_for_status(snapshot, timeout) ==
    BlockStorage_wait_for_status_kw(snapshot, UnsetStatus, NoFailures,
                                    Unset, timeout)

\* create_volume_backup:
\*   backup = self.block_storage.wait_for_status(backup, wait=timeout)
create_volume_backup_wait_for_status(backup, timeout) ==
    BlockStorage_wait_for_status_kw(backup, UnsetStatus, NoFailures,
                                    Unset, timeout)

\* delete_volume_backup:
\*   self.block_storage.wait_for_delete(volume_backup, wait=timeout)
delete_volume_backup_wait_for_delete(volume_backup, timeout) ==
    Proxy_wait_for_delete_kw(volume_backup, Unset, timeout)

\* delete_volume_snapshot:
\*   self.block_storage.wait_for_delete(volumesnapshot, wait=timeout)
delete_volume_snapshot_wait_for_delete(volumesnapshot, timeout) ==
    Proxy_wait_for_delete_kw(volumesnapshot, Unset, timeout)

CloudIdle == pc = "idle" /\ cloud.cpc = "idle"

create_volume ==
    /\ CloudIdle
    /\ \E wait \in BOOLEAN, timeout \in CloudTimeouts, image \in ImageArgs,
          bootable \in BootableArgs, ok \in BOOLEAN :
          LET w      == IF bootable # "None" THEN TRUE ELSE wait
              c0     == CloudCall("create_volume", wait, timeout, bootable)
              c1     == [c0 EXCEPT !.requests = <<"create_volume">>]
              volume == Lookup(remote)
              c2     == [c1 EXCEPT !.volume = volume, !.invalidated = 1]
          IN  IF image = "missing"
                THEN CloudRaise(c0, "OpenStackCloudException")
              ELSE IF ~ok \/ ~remote.exists
                THEN CloudRaise(c1, "SDKException")
              ELSE IF CreateFailed(volume)
                THEN CloudRaise(c2, "OpenStackCloudException")
              ELSE IF w
                THEN CloudWait(c2, "wait_for_status", volume, UnsetStatus,
                               timeout,
                               create_volume_wait_for_status(volume, timeout))
              ELSE CloudReturn(c2, volume)

delete_volume ==
    /\ CloudIdle
    /\ \E wait \in BOOLEAN, timeout \in CloudTimeouts, ok \in BOOLEAN :
          LET volume == Lookup(remote)
              c0 == [CloudCall("delete_volume", wait, timeout, "None")
                       EXCEPT !.volume = volume, !.invalidated = 1]
              c1 == [c0 EXCEPT !.requests = <<"delete_volume">>]
              c2 == [c1 EXCEPT !.invalidated = 2]
          IN  IF volume = NoneValue
                THEN CloudReturn(c0, ValFalse)
              ELSE IF ~ok
                THEN CloudRaise(c1, "SDKException")
              ELSE IF wait
                THEN CloudWait(c2, "wait_for_delete", volume, UnsetStatus,
                               timeout,
                               delete_volume_wait_for_delete(volume, timeout))
              ELSE CloudReturn(c2, ValTrue)

detach_volume ==
    /\ CloudIdle
    /\ \E wait \in BOOLEAN, timeout \in DetachTimeouts, ok \in BOOLEAN :
          LET c0  == CloudCall("detach_volume", wait, timeout, "None")
              c1  == [c0 EXCEPT !.requests = <<"delete_volume_attachment">>]
              vol == Lookup(remote)
          IN  IF ~ok
                THEN CloudRaise(c1, "SDKException")
              ELSE IF wait
                THEN CloudWait([c1 EXCEPT !.volume = vol], "wait_for_status",
                               vol, UnsetStatus, Unset,
                               detach_volume_wait_for_status(vol, timeout))
              ELSE CloudReturn(c1, NoneValue)

attach_volume ==
    /\ CloudIdle
    /\ \E wait \in BOOLEAN, timeout \in CloudTimeouts, status \in Statuses,
          attached \in BOOLEAN, has_fetch \in BOOLEAN, ok \in BOOLEAN :
          LET volume == Resource(TRUE, status)
              c0 == [CloudCall("attach_volume", wait, timeout, "None")
                       EXCEPT !.volume = volume, !.attached = attached]
              c1 == [c0 EXCEPT !.requests = <<"create_volume_attachment">>]
              v  == IF has_fetch THEN volume ELSE Lookup(remote)
          IN  IF attached
                THEN CloudRaise(c0, "OpenStackCloudException")
              ELSE IF volume.status # st_available
                THEN CloudRaise(c0, "OpenStackCloudException")
              ELSE IF ~ok
                THEN CloudRaise(c1, "SDKException")
              ELSE IF wait /\ v = NoneValue
                THEN CloudRaise(c1, "NotFound")
              ELSE IF wait
                THEN CloudWait(c1, "wait_for_status",
                               v, st_in_use, timeout,
                               attach_volume_wait_for_status(v, timeout))
              ELSE CloudReturn(c1, Attachment)

create_volume_snapshot ==
    /\ CloudIdle
    /\ \E wait \in BOOLEAN, timeout \in CloudTimeouts, ok \in BOOLEAN :
          LET c0 == CloudCall("create_volume_snapshot", wait, timeout, "None")
              c1 == [c0 EXCEPT !.requests = <<"create_snapshot">>]
              snapshot == Lookup(remote)
              c2 == [c1 EXCEPT !.volume = snapshot]
          IN  IF ~ok \/ ~remote.exists
                THEN CloudRaise(c1, "SDKException")
              ELSE IF wait
                THEN CloudWait(c2, "wait_for_status", snapshot, UnsetStatus,
                               timeout,
                               create_volume_snapshot_wait_for_status(
                                   snapshot, timeout))
              ELSE CloudReturn(c2, snapshot)

create_volume_backup ==
    /\ CloudIdle
    /\ \E wait \in BOOLEAN, timeout \in CloudTimeouts, ok \in BOOLEAN :
          LET c0 == CloudCall("create_volume_backup", wait, timeout, "None")
              c1 == [c0 EXCEPT !.requests = <<"create_backup">>]
              backup == Lookup(remote)
              c2 == [c1 EXCEPT !.volume = backup]
          IN  IF ~ok \/ ~remote.exists
                THEN CloudRaise(c1, "SDKException")
              ELSE IF wait
                THEN CloudWait(c2, "wait_for_status", backup, UnsetStatus,
                               timeout,
                               create_volume_backup_wait_for_status(
                                   backup, timeout))
              ELSE CloudReturn(c2, backup)

delete_volume_backup ==
    /\ CloudIdle
    /\ \E wait \in BOOLEAN, timeout \in CloudTimeouts, ok \in BOOLEAN :
          LET volume_backup == Lookup(remote)
              c0 == [CloudCall("delete_volume_backup", wait, timeout, "None")
                       EXCEPT !.volume = volume_backup]
              c1 == [c0 EXCEPT !.requests = <<"delete_backup">>]
          IN  IF volume_backup = NoneValue
                THEN CloudReturn(c0, ValFalse)
              ELSE IF ~ok
                THEN CloudRaise(c1, "SDKException")
              ELSE IF wait
                THEN CloudWait(c1, "wait_for_delete", volume_backup,
                               UnsetStatus, timeout,
                               delete_volume_backup_wait_for_delete(
                                   volume_backup, timeout))
              ELSE CloudReturn(c1, ValTrue)

delete_volume_snapshot ==
    /\ CloudIdle
    /\ \E wait \in BOOLEAN, timeout \in CloudTimeouts, ok \in BOOLEAN :
          LET volumesnapshot == Lookup(remote)
              c0 == [CloudCall("delete_volume_snapshot", wait, timeout, "None")
                       EXCEPT !.volume = volumesnapshot]
              c1 == [c0 EXCEPT !.requests = <<"delete_snapshot">>]
          IN  IF volumesnapshot = NoneValue
                THEN CloudReturn(c0, ValFalse)
              ELSE IF ~ok
                THEN CloudRaise(c1, "SDKException")
              ELSE IF wait
                THEN CloudWait(c1, "wait_for_delete", volumesnapshot,
                               UnsetStatus, timeout,
                               delete_volume_snapshot_wait_for_delete(
                                   volumesnapshot, timeout))
              ELSE CloudReturn(c1, ValTrue)

\* The exception a poller call ends with, as the cloud operation sees it.
PollerError(o, e) ==
    CASE o = "Timeout" -> "ResourceTimeout"
      [] o = "Failure" -> "ResourceFailure"
      [] o = "Misuse"  -> "AttributeError"
      [] OTHER         -> e

\* Cloud operations that all return the resource as created, as create_volume
\* does.
CloudResult_as_created(c, v) ==
    CASE c.op \in {"create_volume", "create_volume_snapshot",
                   "create_volume_backup"} -> c.volume
      [] c.op \in {"delete_volume", "delete_volume_backup",
                   "delete_volume_snapshot"} -> ValTrue
      [] c.op = "attach_volume" -> Attachment
      [] OTHER -> NoneValue

\* What the cloud operation returns after its wait returned v.
CloudResult(c, v) ==
    CASE c.op = "create_volume" -> c.volume
      [] c.op \in {"create_volume_snapshot", "create_volume_backup"} -> v
      [] c.op \in {"delete_volume", "delete_volume_backup",
                   "delete_volume_snapshot"} -> ValTrue
      [] c.op = "attach_volume" -> Attachment
      [] OTHER -> NoneValue

\* The remote service attaches the volume: its status becomes 'in-use'.
RemoteAttach ==
    /\ pc \in {"loop", "fetching", "sleep"}
    /\ cloud.op = "attach_volume"
    /\ remote.exists
    /\ remote.status # st_in_use
    /\ remote' = [exists |-> TRUE, status |-> st_in_use]
    /\ UNCHANGED <<call, p, pc, res, known, elapsed, fetches, fetched,
                   sleeps, outcome, err, returned, carried, cloud, request,
                   cleanup>>

\* A cloud operation that returns although its wait raised.
CloudResume_errors_swallowed ==
    /\ cloud.cpc = "waiting"
    /\ pc = "done"
    /\ cloud' = [cloud EXCEPT !.cpc = "returned",
                              !.ret = CloudResult(cloud, returned)]
    /\ NoPoll
    /\ UNCHANGED <<request, cleanup>>

\* The poller call of a cloud operation has ended: an error propagates to
\* the caller; after a return create_volume sets the bootable flag when
\* asked to, and the operation returns.
CloudResume ==
    /\ cloud.cpc = "waiting"
    /\ pc = "done"
    /\ IF outcome # "success"
         THEN cloud' = [cloud EXCEPT !.cpc = "raised",
                                     !.exc = PollerError(outcome, err)]
       ELSE IF cloud.op = "create_volume" /\ cloud.bootable = "True"
         THEN \E ok \in BOOLEAN :
                cloud' = [cloud EXCEPT
                    !.requests = Append(@, "set_volume_bootable_status"),
                    !.cpc = IF ok THEN "returned" ELSE "raised",
                    !.exc = IF ok THEN "" ELSE "SDKException",
                    !.ret = IF ok THEN CloudResult(cloud, returned)
                                  ELSE NoneValue]
       ELSE cloud' = [cloud EXCEPT !.cpc = "returned",
                                   !.ret = CloudResult(cloud, returned)]
    /\ NoPoll
    /\ UNCHANGED <<request, cleanup>>

CloudNext ==
    \/ create_volume
    \/ delete_volume
    \/ detach_volume
    \/ attach_volume
    \/ create_volume_snapshot
    \/ create_volume_backup
    \/ delete_volume_backup
    \/ delete_volume_snapshot
    \/ CloudResume
    \/ PollerNext
    \/ RemoteStep
    \/ RemoteAttach

CloudSpec == Init /\ [][CloudNext]_vars


\* ---------------------------------------------------------------------
\* C18: create_volume, delete_volume, attach_volume,
\* create_volume_snapshot, create_volume_backup, delete_volume_backup and
\* delete_volume_snapshot give the caller's timeout to the poller as its
\* wait limit: timeout=None waits forever, a finite timeout ends in the
\* timeout error once exceeded.  With wait false no poll is made -- as
\* stated, for every one of the seven; in the code, create_volume called
\* with bootable not None sets wait to true and polls all the same.
\* ---------------------------------------------------------------------
C18_Ops == {"create_volume", "delete_volume", "attach_volume",
            "create_volume_snapshot", "create_volume_backup",
            "delete_volume_backup", "delete_volume_snapshot"}

Polled == call.method # ""

C18_TimeoutIsLimit ==
    cloud.op \in C18_Ops /\ Polled => p.wait = cloud.timeout

C18_NoneIsForever ==
    cloud.op \in C18_Ops /\ cloud.timeout = NoneWait
        => outcome # "Timeout" /\ cloud.exc # "ResourceTimeout"

C18_FiniteRaises ==
    cloud.op \in C18_Ops /\ cloud.cpc = "waiting"
                         /\ pc = "loop" /\ pc' # "loop"
        => (outcome' = "Timeout"
              <=> cloud.timeout # NoneWait /\ elapsed > cloud.timeout)

C18_TimeoutPropagates ==
    cloud.op \in C18_Ops /\ outcome = "Timeout"
                         /\ cloud.cpc \in {"returned", "raised"}
        => cloud.cpc = "raised" /\ cloud.exc = "ResourceTimeout"

C18_WaitTruePolls ==
    cloud.op \in C18_Ops /\ cloud.wait /\ cloud.cpc = "returned"
                         /\ cloud.ret # ValFalse
        => Polled

\* The claim as stated: with wait false, none of the seven polls.
C18_WaitFalseNoPoll ==
    cloud.op \in C18_Ops /\ ~cloud.wait => ~Polled

C18_AsStated ==
    /\ C18_TimeoutIsLimit
    /\ C18_NoneIsForever
    /\ C18_TimeoutPropagates
    /\ C18_WaitTruePolls
    /\ C18_WaitFalseNoPoll

\* The claim as the code has it: with wait false no poll is made, unless
\* the operation is create_volume called with bootable not None.
C18_WaitFalseNoPollUnlessBootable ==
    cloud.op \in C18_Ops /\ ~cloud.wait /\ Polled
        => cloud.op = "create_volume" /\ cloud.bootable # "None"

C18_PassThrough ==
    /\ [](/\ C18_TimeoutIsLimit
          /\ C18_NoneIsForever
          /\ C18_TimeoutPropagates
          /\ C18_WaitTruePolls
          /\ C18_WaitFalseNoPollUnlessBootable)
    /\ [][C18_FiniteRaises]_vars

C18_Witness ==
    /\ cloud.op = "delete_volume_snapshot"
    /\ cloud.wait
    /\ cloud.timeout = 2
    /\ p.wait = 2
    /\ elapsed > 2
    /\ cloud.exc = "ResourceTimeout"


\* ---------------------------------------------------------------------
\* C19: detach_volume honours its timeout parameter: with wait=True the
\* wait for the volume to become available is limited to `timeout`
\* seconds, and with timeout=None it waits forever and never raises a
\* timeout error.
\* ---------------------------------------------------------------------
C19_TimeoutIsLimit ==
    cloud.op = "detach_volume" /\ Polled => p.wait = cloud.timeout

C19_NoneIsForever ==
    cloud.op = "detach_volume" /\ cloud.timeout = NoneWait
        => outcome # "Timeout" /\ cloud.exc # "ResourceTimeout"

C19_DetachHonoursTimeout ==
    /\ C19_TimeoutIsLimit
    /\ C19_NoneIsForever


\* ---------------------------------------------------------------------
\* C20: when the volume returned by the create request has status
\* 'error', create_volume raises OpenStackCloudException without any call
\* to wait_for_status and without setting the bootable flag, and the
\* list_volumes cache has been invalidated by then.
\* ---------------------------------------------------------------------
C20_Errored ==
    /\ cloud.op = "create_volume"
    /\ cloud.volume.kind = "resource"
    /\ cloud.volume.status = <<101, 114, 114, 111, 114>>

BootableSet ==
    \E i \in 1..Len(cloud.requests) :
        cloud.requests[i] = "set_volume_bootable_status"

C20_FailFast ==
    C20_Errored =>
        /\ cloud.cpc = "raised"
        /\ cloud.exc = "OpenStackCloudException"
        /\ ~Polled
        /\ pc = "idle"
        /\ ~BootableSet
        /\ cloud.requests = <<"create_volume">>
        /\ cloud.invalidated = 1

C20_Witness ==
    /\ C20_Errored
    /\ cloud.wait
    /\ cloud.bootable = "True"
    /\ cloud.exc = "OpenStackCloudException"

\* Elsewhere the bootable flag does get set: after a successful wait.
C20_BootableReached ==
    /\ cloud.op = "create_volume"
    /\ cloud.cpc = "returned"
    /\ BootableSet


\* ---------------------------------------------------------------------
\* C21: cloud delete_volume.  When find_volume finds no volume it returns
\* False and issues neither a delete request nor a wait; when a volume is
\* found it returns True only after the delete request succeeded and, if
\* wait is true, after wait_for_delete returned; when the delete request
\* raises SDKException the exception is re-raised and no wait is made.
\* ---------------------------------------------------------------------
C21_Called == cloud.op = "delete_volume" /\ cloud.cpc # "idle"

C21_NotFound ==
    C21_Called /\ cloud.volume = NoneValue
        => /\ cloud.cpc = "returned"
           /\ cloud.ret = ValFalse
           /\ cloud.requests = <<>>
           /\ ~Polled

C21_ReturnsTrue ==
    C21_Called /\ cloud.cpc = "returned" /\ cloud.volume # NoneValue
        => /\ cloud.ret = ValTrue
           /\ cloud.requests = <<"delete_volume">>
           /\ cloud.exc = ""
           /\ cloud.wait => /\ Polled
                            /\ p.fn = "wait_for_delete"
                            /\ pc = "done"
                            /\ outcome = "success"
           /\ ~cloud.wait => ~Polled

C21_RequestRaised ==
    C21_Called /\ cloud.exc = "SDKException"
        => /\ cloud.cpc = "raised"
           /\ cloud.requests = <<"delete_volume">>
           /\ ~Polled

C21_DeleteVolume ==
    /\ C21_NotFound
    /\ C21_ReturnsTrue
    /\ C21_RequestRaised

C21_Witness ==
    /\ C21_Called
    /\ cloud.ret = ValTrue
    /\ cloud.wait
    /\ outcome = "success"
    /\ fetches = 2

C21_WitnessNotFound ==
    C21_Called /\ cloud.ret = ValFalse

C21_WitnessRaised ==
    C21_Called /\ cloud.exc = "SDKException"

\* ---------------------------------------------------------------------
\* C22: cloud attach_volume.  If the volume is already attached to the
\* server, or its status is not exactly 'available', attach_volume raises
\* OpenStackCloudException before any attachment-create request and
\* before any wait; otherwise it sends exactly one attachment-create
\* request and, when wait is true, then waits for the volume to reach
\* 'in-use'.
\* ---------------------------------------------------------------------
C22_Called == cloud.op = "attach_volume" /\ cloud.cpc # "idle"

C22_Refused ==
    \/ cloud.attached
    \/ cloud.volume.status # <<97, 118, 97, 105, 108, 97, 98, 108, 101>>

C22_Guards ==
    C22_Called /\ C22_Refused
        => /\ cloud.cpc = "raised"
           /\ cloud.exc = "OpenStackCloudException"
           /\ cloud.requests = <<>>
           /\ ~Polled

C22_OneRequest ==
    C22_Called /\ ~C22_Refused
        => /\ cloud.requests = <<"create_volume_attachment">>
           /\ cloud.exc # "OpenStackCloudException"

C22_ThenWaits ==
    C22_Called
        => /\ Polled => /\ cloud.wait
                        /\ p.fn = "wait_for_status"
                        /\ p.status = <<105, 110, 45, 117, 115, 101>>
                        /\ cloud.requests = <<"create_volume_attachment">>
           /\ cloud.cpc = "returned"
                => /\ cloud.ret = Attachment
                   /\ cloud.wait => /\ Polled
                                    /\ outcome = "success"
                                    /\ EqIgnoreCase(returned.status,
                                                    <<105, 110, 45, 117, 115, 101>>)

C22_AttachVolume ==
    /\ C22_Guards
    /\ C22_OneRequest
    /\ C22_ThenWaits

C22_Witness ==
    /\ C22_Called
    /\ cloud.wait
    /\ cloud.cpc = "returned"
    /\ fetches = 2

C22_WitnessRefused ==
    /\ C22_Called
    /\ cloud.attached
    /\ cloud.volume.status = <<97, 118, 97, 105, 108, 97, 98, 108, 101>>
    /\ cloud.exc = "OpenStackCloudException"


\* ---------------------------------------------------------------------
\* C27: in each wait_for_status iteration the target is checked before the
\* failure set: when the fetched status equals the target status and is
\* also one of the failure statuses, the call returns the fetched resource
\* as success and raises no Failure.
\* ---------------------------------------------------------------------
C27_Both(st) == IsTarget(st) /\ IsFailure(st)

C27_Step ==
    (StatusCall /\ FetchReturns /\ C27_Both(remote.status))
        => /\ pc' = "done"
           /\ outcome' = "success"
           /\ returned' = Resource(TRUE, remote.status)
           /\ carried' = NoneValue

C27_TargetFirst ==
    /\ [][C27_Step]_vars
    /\ [](StatusCall /\ outcome = "Failure" => ~C27_Both(res.status))

C27_Witness ==
    /\ call.method = "wait_for_status"
    /\ call.status = st_available
    /\ call.failures = [isNone |-> FALSE, v |-> {st_error, st_AVAILABLE}]
    /\ call.res.status = st_creating
    /\ fetches = 2
    /\ outcome = "success"
    /\ returned.status = st_Available


\* ---------------------------------------------------------------------
\* C28: the default failure set is applied only when failures is None:
\* block-storage wait_for_status uses ['error'] and compute
\* wait_for_server uses ['ERROR'] then, while a list the caller passed,
\* the empty list included, is used unchanged; so with failures=[] an
\* observed 'error' is no failure and polling continues until the target
\* status or the timeout.
\* ---------------------------------------------------------------------
EmptyFailures == [isNone |-> FALSE, v |-> {}]

C28_Default ==
    (StatusCall /\ call.failures.isNone)
        => p.failures = IF call.method = "wait_for_status"
                          THEN {<<101, 114, 114, 111, 114>>}
                          ELSE {<<69, 82, 82, 79, 82>>}

C28_Unchanged ==
    (StatusCall /\ ~call.failures.isNone) => p.failures = call.failures.v

C28_EmptyStep ==
    (StatusCall /\ call.failures = EmptyFailures /\ FetchReturns)
        => IF IsTarget(remote.status)
             THEN outcome' = "success"
             ELSE pc' = "sleep" /\ outcome' = "none"

C28_EmptyEnds ==
    (StatusCall /\ call.failures = EmptyFailures /\ pc = "done")
        => outcome \in {"success", "Timeout", "Misuse", "error"}

C28_DefaultOnlyOnNone ==
    /\ [](C28_Default /\ C28_Unchanged /\ C28_EmptyEnds)
    /\ [][C28_EmptyStep]_vars

C28_Witness ==
    /\ call.method = "wait_for_status"
    /\ call.failures = EmptyFailures
    /\ call.status = st_available
    /\ res.status = st_error
    /\ fetches = 2
    /\ outcome = "Timeout"


\* ---------------------------------------------------------------------
\* Proxy calls and cloud operations together: one call per behaviour,
\* either of a proxy method or of a cloud operation
\* ---------------------------------------------------------------------
\* A proxy method is called directly, not by a cloud operation.
DirectCall == cloud = NoCloud

ProxyCloudNext ==
    \/ DirectCall /\ wait_for_status
    \/ DirectCall /\ wait_for_server
    \/ DirectCall /\ wait_for_delete
    \/ create_volume
    \/ delete_volume
    \/ detach_volume
    \/ attach_volume
    \/ create_volume_snapshot
    \/ create_volume_backup
    \/ delete_volume_backup
    \/ delete_volume_snapshot
    \/ CloudResume
    \/ PollerNext
    \/ RemoteStep
    \/ RemoteAttach

ProxyCloudSpec == Init /\ [][ProxyCloudNext]_vars

\* ---------------------------------------------------------------------
\* C29: whenever wait_for_status returns normally, the status of the
\* returned resource equals the target status (ignoring case), and the
\* returned resource is the initial handle when no fetch was made and
\* otherwise the result of the last fetch; create_volume_snapshot and
\* create_volume_backup with wait true return that resource, and with
\* wait false return the resource as created.
\* ---------------------------------------------------------------------
C29_Target ==
    IF call.status = <<>> THEN <<97, 118, 97, 105, 108, 97, 98, 108, 101>>
                          ELSE call.status

C29_Returned == StatusCall /\ pc = "done" /\ outcome = "success"

C29_Status ==
    C29_Returned => /\ returned.kind = "resource"
                    /\ EqIgnoreCase(returned.status, C29_Target)

C29_NoFetch ==
    C29_Returned /\ fetches = 0 => returned = call.res

C29_LastFetch ==
    (StatusCall /\ FetchReturns /\ outcome' = "success")
        => /\ returned' = Resource(TRUE, remote.status)
           /\ fetches' = fetches
           /\ fetches >= 1

C29_Kept ==
    C29_Returned => returned' = returned /\ fetches' = fetches

C29_CreateOp ==
    cloud.op \in {"create_volume_snapshot", "create_volume_backup"}

C29_Cloud ==
    C29_CreateOp /\ cloud.cpc = "returned"
        => IF cloud.wait
             THEN C29_Returned /\ cloud.ret = returned
             ELSE ~Polled /\ cloud.ret = cloud.volume
                          /\ cloud.volume.kind = "resource"

C29_SuccessPostcondition ==
    /\ [](C29_Status /\ C29_NoFetch /\ C29_Cloud)
    /\ [][C29_LastFetch /\ C29_Kept]_vars

C29_Witness ==
    /\ cloud.op = "create_volume_snapshot"
    /\ cloud.wait
    /\ cloud.cpc = "returned"
    /\ cloud.volume.status = st_creating
    /\ fetches = 2
    /\ cloud.ret = Resource(TRUE, st_Available)

C29_WitnessProxy ==
    /\ cloud.op = ""
    /\ call.method = "wait_for_server"
    /\ call.status = st_creating
    /\ fetches = 3
    /\ outcome = "success"
    /\ returned.status = st_creating

C29_WitnessNoWait ==
    /\ cloud.op = "create_volume_backup"
    /\ ~cloud.wait
    /\ cloud.ret = Resource(TRUE, st_error)


\* ---------------------------------------------------------------------
\* The proxy delete methods: block_storage delete_volume, delete_snapshot,
\* delete_backup and compute delete_server
\* ---------------------------------------------------------------------

\* self._delete(resource_type, value, ignore_missing=ignore_missing): the
\* exception it ends with ("" for none) when the resource exists or not.
\* A missing resource is ignored or raises ResourceNotFound, as the
\* methods document for ignore_missing.
Proxy_delete(exists, ignore_missing) ==
    IF exists \/ ignore_missing THEN "" ELSE "ResourceNotFound"

\* value = self._get_resource(resource_type, value); value.force_delete(self)
\* The force-delete action takes no ignore_missing.  On a missing resource
\* the remote service answers not-found; raises404 says whether
\* force_delete raises ResourceNotFound for it or returns.
Force_delete(exists, raises404) ==
    IF exists \/ ~raises404 THEN "" ELSE "ResourceNotFound"

\* if not force: self._delete(...) else: ...force_delete(self)
\* (and the variant that passes ignore_missing on to the force path).
Delete_force_honours_ignore_missing(exists, ignore_missing, force, raises404) ==
    IF ~force THEN Proxy_delete(exists, ignore_missing)
    ELSE IF ignore_missing THEN "" ELSE Proxy_delete(exists, FALSE)

Delete(exists, ignore_missing, force, raises404) ==
    IF ~force THEN Proxy_delete(exists, ignore_missing)
              ELSE Force_delete(exists, raises404)

NothingElse ==
    UNCHANGED <<call, p, pc, res, known, elapsed, fetches, fetched, sleeps,
                outcome, err, returned, carried, cloud, cleanup, remote>>

\* A proxy delete method is called on a resource that exists or not; an
\* existing one may also fail to delete for another reason.
DeleteCall_(op) ==
    /\ pc = "idle"
    /\ cloud.cpc = "idle"
    /\ cleanup.phase = "idle"
    /\ request.state = "idle"
    /\ \E ignore_missing \in BOOLEAN, force \in BOOLEAN,
          raises404 \in BOOLEAN, ok \in BOOLEAN :
          LET e == IF remote.exists /\ ~ok THEN "HttpException"
                   ELSE Delete(remote.exists, ignore_missing, force,
                               raises404)
          IN  request' = [op |-> op, ignore_missing |-> ignore_missing,
                          force |-> force, missing |-> ~remote.exists,
                          state |-> IF e = "" THEN "returned" ELSE "raised",
                          exc |-> e,
                          sent |-> <<IF force THEN "force_delete"
                                              ELSE "DELETE">>]
    /\ NothingElse

Proxy_delete_volume   == DeleteCall_("delete_volume")
Proxy_delete_snapshot == DeleteCall_("delete_snapshot")
Proxy_delete_backup   == DeleteCall_("delete_backup")
Proxy_delete_server   == DeleteCall_("delete_server")

DeleteNext ==
    \/ Proxy_delete_volume
    \/ Proxy_delete_snapshot
    \/ Proxy_delete_backup
    \/ Proxy_delete_server

DeleteSpec == Init /\ [][DeleteNext]_vars

\* ---------------------------------------------------------------------
\* C23: block-storage delete_volume, delete_snapshot, delete_backup and
\* compute delete_server called with ignore_missing=True raise no
\* exception when the resource does not exist, for force=False and for
\* force=True alike; with ignore_missing=False a missing resource raises
\* ResourceNotFound.
\* ---------------------------------------------------------------------
C23_Missing == request.op # "" /\ request.missing

C23_Ignored ==
    C23_Missing /\ request.ignore_missing
        => request.state = "returned" /\ request.exc = ""

C23_NotIgnored ==
    C23_Missing /\ ~request.ignore_missing
        => request.state = "raised" /\ request.exc = "ResourceNotFound"

C23_IgnoreMissing ==
    /\ C23_Ignored
    /\ C23_NotIgnored

\* What does hold: the claim for force=False.
C23_WithoutForce ==
    ~request.force => C23_IgnoreMissing


\* ---------------------------------------------------------------------
\* Proxy._service_cleanup of block_storage and of compute
\* ---------------------------------------------------------------------

\* How many backups, snapshots, volumes or servers a listing yields at most.
MaxObjects == 2

\* The object a wait of the cleanup watches, as listed.
Listed == Resource(TRUE, st_available)

\* The remote state of an object when the cleanup starts to wait for it:
\* still there, or gone already.
CleanupRemotes == {[exists |-> TRUE, status |-> st_available], Deleted}

\* Whether e is an exceptions.SDKException: the poller's own errors and
\* HTTP errors are, a failure of the transport below the SDK is not.
IsSDKException(e) ==
    e \in {"ResourceTimeout", "ResourceFailure", "Authorization"}

\* Whether the wait loop of the cleanup catches e:
\*   block_storage:  try: self.wait_for_delete(obj)
\*                   except exceptions.SDKException: pass
\*   compute:        self.wait_for_delete(server)
\* (and the variants with no try at all, and with the try in compute too).
Swallowed_never(svc, e) == FALSE

Swallowed_always(svc, e) == IsSDKException(e)

Swallowed(svc, e) == svc = "block_storage" /\ IsSDKException(e)

\* `for obj in backups:` has gone through the whole list (and the variant
\* that does not wait for what it deleted).
AllWaited_none(kind) == TRUE

AllWaited(kind) == cleanup.started[kind] = cleanup.selected[kind]

\* `if not dry_run and need_delete:` (and the variant without dry_run).
Selected_in_dry_run(dry_run, need_delete) == need_delete

Selected(dry_run, need_delete) == ~dry_run /\ need_delete

Inc(f, k) == [f EXCEPT ![k] = @ + 1]

PollerUntouched ==
    UNCHANGED <<call, p, pc, res, known, elapsed, fetches, fetched, sleeps,
                outcome, err, returned, carried>>

PollerReset ==
    /\ call' = NoCall
    /\ p' = NoArgs
    /\ pc' = "idle"
    /\ res' = NoneValue
    /\ known' = NoneValue
    /\ elapsed' = 0
    /\ fetches' = 0
    /\ fetched' = ""
    /\ sleeps' = 0
    /\ outcome' = "none"
    /\ err' = ""
    /\ returned' = NoneValue
    /\ carried' = NoneValue

\* _service_cleanup(dry_run=True, ..., identified_resources=None, ...) is
\* called on one of the two proxies.
service_cleanup(svc) ==
    /\ pc = "idle"
    /\ cloud.cpc = "idle"
    /\ request.state = "idle"
    /\ cleanup.phase = "idle"
    /\ \E dry_run \in BOOLEAN, no_dict \in BOOLEAN :
          cleanup' = [NoCleanup EXCEPT
                        !.svc = svc, !.dry_run = dry_run,
                        !.no_dict = no_dict,
                        !.phase = IF svc = "block_storage" THEN "backups"
                                                           ELSE "servers"]
    /\ PollerUntouched
    /\ UNCHANGED <<cloud, request, remote>>

BlockStorage_service_cleanup == service_cleanup("block_storage")
Compute_service_cleanup      == service_cleanup("compute")

\* One turn of `for obj in self.backups(...)` (snapshots, volumes):
\*   need_delete = self._service_cleanup_del_res(self.delete_backup, obj,
\*                                               dry_run=dry_run, ...)
\*   if not dry_run and need_delete: backups.append(obj)
\* The helper decides need_delete and, outside a dry run, calls the delete
\* method for an object that needs deleting.
ListObject(phase, kind) ==
    /\ cleanup.phase = phase
    /\ cleanup.listed < MaxObjects
    /\ \E need_delete \in BOOLEAN :
          cleanup' = [cleanup EXCEPT
              !.listed = @ + 1,
              !.deletes = IF need_delete /\ ~cleanup.dry_run
                            THEN Inc(@, kind) ELSE @,
              !.selected = IF kind # "volume"
                              /\ Selected(cleanup.dry_run, need_delete)
                             THEN Inc(@, kind) ELSE @]
    /\ PollerUntouched
    /\ UNCHANGED <<cloud, request, remote>>

\* The listing is exhausted: the cleanup goes on to the waits, or, after
\* the volumes, returns.
ListEnd(phase, next) ==
    /\ cleanup.phase = phase
    /\ cleanup' = [cleanup EXCEPT !.phase = next, !.listed = 0]
    /\ remote' \in CleanupRemotes
    /\ PollerUntouched
    /\ UNCHANGED <<cloud, request>>

\* One turn of `for server in self.servers()`: as above, and
\*   for port in self._connection.network.ports(device_id=obj.id):
\*       identified_resources[port.id] = port
\* which fails when identified_resources is None and the server has a port.
ListServer ==
    /\ cleanup.phase = "servers"
    /\ cleanup.listed < MaxObjects
    /\ \E need_delete \in BOOLEAN, ports \in 0..1 :
          LET sel == Selected(cleanup.dry_run, need_delete)
              c == [cleanup EXCEPT
                      !.listed = @ + 1,
                      !.deletes = IF need_delete /\ ~cleanup.dry_run
                                    THEN Inc(@, "server") ELSE @]
          IN  IF sel /\ ports > 0 /\ cleanup.no_dict
                THEN cleanup' = [c EXCEPT !.phase = "raised",
                                          !.exc = "TypeError"]
                ELSE cleanup' = [c EXCEPT
                        !.ports = IF sel THEN @ + ports ELSE @,
                        !.selected = IF sel THEN Inc(@, "server") ELSE @]
    /\ PollerUntouched
    /\ UNCHANGED <<cloud, request, remote>>

\* self.wait_for_delete(obj) for the next object of the list.
WaitStart(phase, kind) ==
    /\ cleanup.phase = phase
    /\ pc = "idle"
    /\ ~AllWaited(kind)
    /\ cleanup' = [cleanup EXCEPT !.started = Inc(@, kind)]
    /\ call' = KwCall(cleanup.svc, "wait_for_delete", Listed, Unset, Unset)
    /\ Enter(Proxy_wait_for_delete_kw(Listed, Unset, Unset))
    /\ UNCHANGED <<cloud, request>>

\* The wait has ended: it returned, or raised an exception that the loop
\* catches or that ends the cleanup.
WaitEnd(phase, kind) ==
    /\ cleanup.phase = phase
    /\ pc = "done"
    /\ LET e == PollerError(outcome, err)
           c == [cleanup EXCEPT !.ended = Inc(@, kind)]
       IN  IF outcome = "success"
             THEN cleanup' = [c EXCEPT !.gone = Inc(@, kind)]
           ELSE IF Swallowed(cleanup.svc, e)
             THEN cleanup' = [c EXCEPT !.swallowed = @ + 1]
           ELSE cleanup' = [c EXCEPT !.phase = "raised", !.exc = e]
    /\ PollerReset
    /\ remote' \in CleanupRemotes
    /\ UNCHANGED <<cloud, request>>

\* The list of objects to wait for is exhausted.
WaitsDone(phase, kind, next) ==
    /\ cleanup.phase = phase
    /\ pc = "idle"
    /\ AllWaited(kind)
    /\ cleanup' = [cleanup EXCEPT !.phase = next]
    /\ PollerUntouched
    /\ UNCHANGED <<cloud, request, remote>>

ListBackup       == ListObject("backups", "backup")
ListBackupsEnd   == ListEnd("backups", "backup_waits")
WaitBackup       == WaitStart("backup_waits", "backup")
WaitBackupEnd    == WaitEnd("backup_waits", "backup")
WaitBackupsDone  == WaitsDone("backup_waits", "backup", "snapshots")
ListSnapshot     == ListObject("snapshots", "snapshot")
ListSnapshotsEnd == ListEnd("snapshots", "snapshot_waits")
WaitSnapshot     == WaitStart("snapshot_waits", "snapshot")
WaitSnapshotEnd  == WaitEnd("snapshot_waits", "snapshot")
WaitSnapshotsDone == WaitsDone("snapshot_waits", "snapshot", "volumes")
ListVolume       == ListObject("volumes", "volume")
ListVolumesEnd   == ListEnd("volumes", "returned")
ListServersEnd   == ListEnd("servers", "server_waits")
WaitServer       == WaitStart("server_waits", "server")
WaitServerEnd    == WaitEnd("server_waits", "server")
WaitServersDone  == WaitsDone("server_waits", "server", "returned")

\* The watched object disappears from the remote service.
RemoteGone ==
    /\ cleanup.phase \in {"backup_waits", "snapshot_waits", "server_waits"}
    /\ pc \in {"loop", "fetching", "sleep"}
    /\ remote.exists
    /\ remote' = Deleted
    /\ PollerUntouched
    /\ UNCHANGED <<cloud, request, cleanup>>

CleanupNext ==
    \/ BlockStorage_service_cleanup
    \/ Compute_service_cleanup
    \/ ListBackup
    \/ ListBackupsEnd
    \/ WaitBackup
    \/ WaitBackupEnd
    \/ WaitBackupsDone
    \/ ListSnapshot
    \/ ListSnapshotsEnd
    \/ WaitSnapshot
    \/ WaitSnapshotEnd
    \/ WaitSnapshotsDone
    \/ ListVolume
    \/ ListVolumesEnd
    \/ ListServer
    \/ ListServersEnd
    \/ WaitServer
    \/ WaitServerEnd
    \/ WaitServersDone
    \/ PollerNext
    \/ RemoteGone

CleanupSpec == Init /\ [][CleanupNext]_vars


\* C24: in a block-storage cleanup that is not a dry run, every wait for a
\* selected backup has been started and has ended (returned or raised)
\* before the first snapshot delete is attempted, and every wait for a
\* selected snapshot has ended before the first volume delete is attempted;
\* in a dry run no wait_for_delete is called at all.
C24_Cleanup == cleanup.svc = "block_storage"

C24_AllEnded(kind) ==
    /\ cleanup.started[kind] = cleanup.selected[kind]
    /\ cleanup.ended[kind] = cleanup.selected[kind]

C24_BackupsFirst ==
    (C24_Cleanup /\ (cleanup.deletes.snapshot > 0
                     \/ cleanup.phase \in {"snapshots", "snapshot_waits",
                                           "volumes", "returned"}))
        => C24_AllEnded("backup")

C24_SnapshotsFirst ==
    (C24_Cleanup /\ (cleanup.deletes.volume > 0
                     \/ cleanup.phase \in {"volumes", "returned"}))
        => C24_AllEnded("snapshot")

C24_DryRunNoWait ==
    (C24_Cleanup /\ cleanup.dry_run)
        => /\ pc = "idle"
           /\ call = NoCall
           /\ cleanup.started = NoCleanup.started
           /\ cleanup.deletes = NoCleanup.deletes

C24_Ordering ==
    /\ C24_BackupsFirst
    /\ C24_SnapshotsFirst
    /\ C24_DryRunNoWait

C24_Witness ==
    /\ C24_Cleanup
    /\ ~cleanup.dry_run
    /\ cleanup.selected.backup = MaxObjects
    /\ cleanup.ended.backup = MaxObjects
    /\ cleanup.swallowed > 0
    /\ cleanup.selected.snapshot > 0
    /\ cleanup.ended.snapshot = cleanup.selected.snapshot
    /\ cleanup.deletes.volume > 0

C24_WitnessDryRun ==
    /\ C24_Cleanup
    /\ cleanup.dry_run
    /\ cleanup.phase = "returned"


\* C25: the block-storage cleanup is best-effort about waits: an
\* SDKException (such as the timeout) raised by the wait for one backup or
\* snapshot is swallowed, the remaining waits are still made and the later
\* phases still run; the cleanup never ends with an SDKException of a wait.
C25_NeverFails ==
    (C24_Cleanup /\ cleanup.phase = "raised")
        => ~IsSDKException(cleanup.exc)

\* A wait that ends with an SDKException leaves the cleanup in its phase,
\* counted as ended, with the next wait or phase still to come.
C25_SwallowStep ==
    (/\ C24_Cleanup
     /\ pc = "done"
     /\ outcome # "success"
     /\ IsSDKException(PollerError(outcome, err))
     /\ cleanup' # cleanup)
        => /\ cleanup'.phase = cleanup.phase
           /\ cleanup'.swallowed = cleanup.swallowed + 1
           /\ cleanup'.ended # cleanup.ended
           /\ cleanup'.selected = cleanup.selected
           /\ pc' = "idle"

\* When the cleanup has returned, every selected object was waited for and
\* all three listings ran, whatever the waits raised.
C25_AllPhases ==
    (C24_Cleanup /\ cleanup.phase = "returned")
        => /\ C24_AllEnded("backup")
           /\ C24_AllEnded("snapshot")
           /\ cleanup.ended.backup + cleanup.ended.snapshot
                = cleanup.gone.backup + cleanup.gone.snapshot
                  + cleanup.swallowed

C25_State == C25_NeverFails /\ C25_AllPhases

C25_BestEffort == [][C25_SwallowStep]_vars /\ []C25_State

\* The wait for the first backup timed out, the second backup was waited
\* for all the same, and snapshots and volumes were deleted afterwards.
C25_Witness ==
    /\ C24_Cleanup
    /\ cleanup.phase = "returned"
    /\ cleanup.selected.backup = MaxObjects
    /\ cleanup.gone.backup = 0
    /\ cleanup.swallowed >= MaxObjects
    /\ cleanup.deletes.snapshot > 0
    /\ cleanup.deletes.volume > 0


\* A second wait times out after the exception of the first was swallowed.
C25_WitnessTimeout ==
    /\ C24_Cleanup
    /\ cleanup.swallowed > 0
    /\ pc = "done"
    /\ PollerError(outcome, err) = "ResourceTimeout"
    /\ elapsed > DefaultWait


\* C26: a compute cleanup that is not a dry run returns normally only after
\* every server it selected has been observed as deleted by wait_for_delete;
\* the delete requests for all selected servers are issued before the first
\* wait starts; a timeout of one wait propagates to the caller and the
\* remaining servers are not waited for; in a dry run no wait is made and
\* no port is added to identified_resources.
C26_Cleanup == cleanup.svc = "compute"

C26_ReturnsAfterGone ==
    (C26_Cleanup /\ cleanup.phase = "returned")
        => /\ cleanup.started.server = cleanup.selected.server
           /\ cleanup.gone.server = cleanup.selected.server
           /\ cleanup.swallowed = 0

\* A wait only starts when the listing loop, which issues the deletes, is
\* over: no delete follows the start of a wait.
C26_DeletesFirst ==
    (C26_Cleanup /\ cleanup.started.server > 0)
        => /\ cleanup.phase \in {"server_waits", "returned", "raised"}
           /\ cleanup.deletes.server >= cleanup.selected.server

C26_NoDeleteAfterWait ==
    (C26_Cleanup /\ cleanup.started.server > 0)
        => /\ cleanup'.deletes = cleanup.deletes
           /\ cleanup'.selected = cleanup.selected

\* A wait that times out ends the cleanup with the timeout.
C26_TimeoutStep ==
    (/\ C26_Cleanup
     /\ pc = "done"
     /\ outcome = "Timeout"
     /\ cleanup' # cleanup)
        => /\ cleanup'.phase = "raised"
           /\ cleanup'.exc = "ResourceTimeout"

\* Once the cleanup has raised, no further wait is started.
C26_RaisedStops ==
    (C26_Cleanup /\ cleanup.phase = "raised")
        => /\ cleanup' = cleanup
           /\ pc' = pc

C26_DryRun ==
    (C26_Cleanup /\ cleanup.dry_run)
        => /\ pc = "idle"
           /\ call = NoCall
           /\ cleanup.started = NoCleanup.started
           /\ cleanup.ports = 0

C26_State ==
    /\ C26_ReturnsAfterGone
    /\ C26_DeletesFirst
    /\ C26_DryRun

C26_WitnessTimeout ==
    /\ C26_Cleanup
    /\ cleanup.phase = "raised"
    /\ cleanup.exc = "ResourceTimeout"
    /\ cleanup.selected.server = MaxObjects
    /\ cleanup.started.server = 1

C26_WitnessDryRun ==
    /\ C26_Cleanup
    /\ cleanup.dry_run
    /\ cleanup.phase = "returned"
    /\ cleanup.listed = 0

====
